---- MODULE Spec2Model ----
(***************************************************************************)
(* Model of nerfstudio/scripts/get_plane.py: the launcher `launch` and the *)
(* estimation job `plane_estimation` it runs as main_func.                 *)
(*                                                                         *)
(* One run of the script is one behaviour.  The configuration, the files   *)
(* of the checkpoint directory and the scene held by the data manager are  *)
(* inputs fixed in Init; the actions are the statements of the two         *)
(* functions in program order, a Python exception being a jump to the      *)
(* try/except/finally of launch.                                           *)
(***************************************************************************)
EXTENDS Integers, Sequences, FiniteSets, TLC

(***************************************************************************)
(* Bounds of the model.                                                    *)
(***************************************************************************)
MaxMachines == 2
MaxDevices == 2
MaxCameras == 2
MaxSamples == 2

(***************************************************************************)
(* Floating point values.  A value is finite (an integer here: the inputs  *)
(* below are chosen so that every quotient by a non-zero focal length is   *)
(* exact), an infinity with a sign, or NaN.  Operations follow IEEE 754 as *)
(* torch applies them to tensors: no operation raises.                     *)
(***************************************************************************)
Fin(n) == [k |-> "fin", v |-> n]
Inf(s) == [k |-> "inf", v |-> s]
NaN == [k |-> "nan", v |-> 0]

IsFinite(a) == a.k = "fin"

Sign(n) == IF n < 0 THEN -1 ELSE 1

FNeg(a) == IF a.k = "nan" THEN NaN ELSE [a EXCEPT !.v = -a.v]

FAdd(a, b) ==
    IF a.k = "nan" \/ b.k = "nan" THEN NaN
    ELSE IF a.k = "inf" /\ b.k = "inf" THEN (IF a.v = b.v THEN a ELSE NaN)
    ELSE IF a.k = "inf" THEN a
    ELSE IF b.k = "inf" THEN b
    ELSE Fin(a.v + b.v)

FSub(a, b) == FAdd(a, FNeg(b))

FMul(a, b) ==
    IF a.k = "nan" \/ b.k = "nan" THEN NaN
    ELSE IF a.k = "inf" /\ b.k = "inf" THEN Inf(a.v * b.v)
    ELSE IF a.k = "inf" THEN (IF b.v = 0 THEN NaN ELSE Inf(a.v * Sign(b.v)))
    ELSE IF b.k = "inf" THEN (IF a.v = 0 THEN NaN ELSE Inf(b.v * Sign(a.v)))
    ELSE Fin(a.v * b.v)

\* a / b.  A zero divisor gives NaN for 0/0 and a signed infinity otherwise.
FDiv(a, b) ==
    IF a.k = "nan" \/ b.k = "nan" THEN NaN
    ELSE IF a.k = "inf" /\ b.k = "inf" THEN NaN
    ELSE IF a.k = "inf" THEN Inf(a.v * Sign(b.v))
    ELSE IF b.k = "inf" THEN Fin(0)
    ELSE IF b.v = 0 THEN (IF a.v = 0 THEN NaN ELSE Inf(Sign(a.v)))
    ELSE Fin(Sign(a.v) * Sign(b.v) *
             ((IF a.v < 0 THEN -a.v ELSE a.v) \div (IF b.v < 0 THEN -b.v ELSE b.v)))

(***************************************************************************)
(* File names are sequences of one-character strings, so that the name     *)
(* parsing of line 137 and the formatting of line 138 are computed.        *)
(***************************************************************************)
Digits == <<"0", "1", "2", "3", "4", "5", "6", "7", "8", "9">>

IsDigit(c) == \E d \in 1..10 : Digits[d] = c

DigitVal(c) == (CHOOSE d \in 1..10 : Digits[d] = c) - 1

\* str.find: the 0-based index of the first occurrence of ch, -1 when absent
Find(x, ch) ==
    IF \E j \in 1..Len(x) : x[j] = ch
    THEN (CHOOSE j \in 1..Len(x) : x[j] = ch /\ \A h \in 1..(j - 1) : x[h] # ch) - 1
    ELSE -1

\* x[a:b] of Python: negative indices count from the end, both are clamped
PySlice(x, a, b) ==
    LET n == Len(x)
        norm(j) == IF j < 0 THEN (IF j + n < 0 THEN 0 ELSE j + n)
                   ELSE (IF j > n THEN n ELSE j)
    IN  SubSeq(x, norm(a) + 1, norm(b))

RECURSIVE DigitsValue(_)
DigitsValue(s) ==
    IF s = <<>> THEN 0
    ELSE 10 * DigitsValue(SubSeq(s, 1, Len(s) - 1)) + DigitVal(s[Len(s)])

\* int(s): defined on non-empty digit strings, ValueError otherwise
IntParses(s) == s # <<>> /\ \A j \in 1..Len(s) : IsDigit(s[j])

RECURSIVE DigitsOf(_)
DigitsOf(n) ==
    IF n < 10 THEN <<Digits[n + 1]>>
    ELSE DigitsOf(n \div 10) \o <<Digits[(n % 10) + 1]>>

RECURSIVE ZeroPad(_, _)
ZeroPad(s, w) == IF Len(s) >= w THEN s ELSE ZeroPad(<<"0">> \o s, w)

\* the field width of the format of line 138
StepWidth == 9

\* f"step-{load_step:09d}.ckpt"
CheckpointName(load_step) ==
    <<"s", "t", "e", "p", "-">> \o ZeroPad(DigitsOf(load_step), StepWidth)
        \o <<".", "c", "k", "p", "t">>

\* x[x.find("-") + 1 : x.find(".")]
StepField(x) == PySlice(x, Find(x, "-") + 1, Find(x, "."))

RECURSIVE SortedSeq(_)
SortedSeq(S) ==
    IF S = {} THEN <<>>
    ELSE LET m == CHOOSE a \in S : \A b \in S : a <= b
         IN  <<m>> \o SortedSeq(S \ {m})

\* sorted(int(...) for x in os.listdir(load_dir))[-1], for parsable names
LatestStepFirst(files) ==
    LET s == SortedSeq({DigitsValue(StepField(x)) : x \in files}) IN s[1]

LatestStep(files) ==
    LET s == SortedSeq({DigitsValue(StepField(x)) : x \in files}) IN s[Len(s)]

(***************************************************************************)
(* Exceptions, by the statement that raises them.                          *)
(***************************************************************************)
NoError == "none"
ConfigIsNone == "AssertionError: config is not None"
WorldSizeZero == "ValueError: world_size cannot be 0"
KeyboardInterrupt == "KeyboardInterrupt"
ListdirMissing == "FileNotFoundError: os.listdir"
NotAnInteger == "ValueError: invalid literal for int()"
EmptyListIndex == "IndexError: list index out of range"
CheckpointMissing == "AssertionError: Checkpoint does not exist"
Undeserializable == "UnpicklingError: torch.load"
MissingField == "KeyError: loaded_state"
FalseLength == "AssertionError: false length"
NothingToConcatenate == "ValueError: need at least one array to concatenate"
FitRejectsInput == "ValueError: LinearRegression.fit"

(***************************************************************************)
(* Inputs: launch arguments and checkpoint configuration.                  *)
(***************************************************************************)
\* the path given as config.load_checkpoint
CheckpointFile == <<"m", "o", "d", "e", "l", ".", "c", "k", "p", "t">>

StepValues == {5, 10, 100}

FileNames ==
    {CheckpointName(n) : n \in StepValues}
        \cup {<<"s", "t", "e", "p", "-", "7", ".", "c", "k", "p", "t">>,
              <<"a", ".", "t", "x", "t">>}

MakeConfig(none, m, d, dir, step, file) ==
    [is_none |-> none, num_machines |-> m, num_devices |-> d,
     load_dir |-> dir, load_step |-> step, load_checkpoint |-> file]

\* one machine, one device, no checkpoint source
PlainConfig == MakeConfig(FALSE, 1, 1, FALSE, {}, FALSE)

LaunchConfigs ==
    {MakeConfig(none, m, d, FALSE, {}, FALSE) :
        none \in BOOLEAN, m \in 0..MaxMachines, d \in 0..MaxDevices}

CheckpointConfigs ==
    {MakeConfig(FALSE, 1, 1, dir, step, file) :
        dir \in BOOLEAN, step \in {{}, {5}, {7}}, file \in BOOLEAN}

MakeFiles(de, fl, ce, ct) ==
    [dir_exists |-> de, files |-> fl, ckpt_exists |-> ce, content |-> ct]

PlainFiles == MakeFiles(TRUE, {}, FALSE, "ok")

FileSystems ==
    {MakeFiles(de, fl, ce, ct) :
        de \in BOOLEAN, fl \in SUBSET FileNames, ce \in BOOLEAN,
        ct \in {"ok", "garbage", "nofields"}}
    \ {f \in [dir_exists : {FALSE}, files : SUBSET FileNames,
               ckpt_exists : BOOLEAN, content : {"ok", "garbage", "nofields"}] :
          f.files # {}}

(***************************************************************************)
(* Inputs: the scene of the data manager (cameras, ray indices, the        *)
(* normalization transform and scale) and the depth outputs of the         *)
(* surface-detection stage.                                                *)
(***************************************************************************)
Identity34 == <<<<1, 0, 0, 0>>, <<0, 1, 0, 0>>, <<0, 0, 1, 0>>>>

\* x and y exchanged, then moved by 2 along z
Swap34 == <<<<0, 1, 0, 0>>, <<1, 0, 0, 0>>, <<0, 0, 1, 2>>>>

\* y and z exchanged, then moved by 1 along z
Tilt34 == <<<<1, 0, 0, 0>>, <<0, 0, 1, 0>>, <<0, 1, 0, 1>>>>

MakeCamera(fx, fy, cx, cy, c2w) ==
    [fx |-> fx, fy |-> fy, cx |-> cx, cy |-> cy, camera_to_worlds |-> c2w]

IdentityCamera == MakeCamera(1, 1, 0, 0, Identity34)

CameraKinds ==
    {IdentityCamera,
     MakeCamera(2, 2, 1, 1, Swap34),
     MakeCamera(0, 1, 0, 0, Identity34),
     MakeCamera(1, 0, 0, 0, Identity34)}

\* the (transform_matrix, scale_factor) pairs of the data manager
Normalizations ==
    {[transform_matrix |-> Identity34, scale_factor |-> 1],
     [transform_matrix |-> Identity34, scale_factor |-> 2],
     [transform_matrix |-> Tilt34, scale_factor |-> 2]}

\* The sampled rays of a camera, <<row, column, depth>>: camera j samples the
\* first entries of row j of this table.  Depths are even, so that a division
\* by the focal length 2 is exact.
Pixels ==
    <<<<<<0, 0, 2>>, <<1, 2, 2>>, <<2, 0, 4>>>>,
      <<<<0, 0, 4>>, <<0, 0, 6>>, <<1, 1, 2>>>>,
      <<<<1, 2, 2>>, <<0, 1, 2>>, <<2, 2, 4>>>>>>

PixelOf(j, k) == Pixels[((j - 1) % Len(Pixels)) + 1][((k - 1) % Len(Pixels[1])) + 1]

\* extra: the number of depth outputs the stage returns beyond (or, negative,
\* short of) the number of cameras
MakeScene(kinds, counts, norm, extra) ==
    LET n == Len(kinds) IN
    [expanded_cameras |-> kinds,
     ray_indices |-> [j \in 1..n |->
         [row |-> [k \in 1..counts[j] |-> PixelOf(j, k)[1]],
          col |-> [k \in 1..counts[j] |-> PixelOf(j, k)[2]]]],
     transform_matrix |-> norm.transform_matrix,
     scale_factor |-> norm.scale_factor,
     surface_detection |->
         [j \in 1..(n + extra) |->
             IF j <= n THEN [k \in 1..counts[j] |-> PixelOf(j, k)[3]] ELSE <<>>]]

Scenes ==
    UNION {{MakeScene(kinds, counts, norm, 0) :
               kinds \in [1..n -> CameraKinds],
               counts \in [1..n -> 0..MaxSamples],
               norm \in Normalizations} : n \in 0..MaxCameras}

PlainNormalization == [transform_matrix |-> Identity34, scale_factor |-> 1]

\* scenes whose surface-detection stage returns one output too many or too few
MismatchedScenes ==
    {MakeScene([j \in 1..n |-> IdentityCamera], [j \in 1..n |-> 1],
               PlainNormalization, extra) :
        n \in 0..MaxCameras, extra \in {1}}
    \cup {MakeScene([j \in 1..n |-> IdentityCamera], [j \in 1..n |-> 1],
                    PlainNormalization, -1) : n \in 1..MaxCameras}

\* one identity camera with one sample
PlainScene == MakeScene(<<IdentityCamera>>, <<1>>, PlainNormalization, 0)

(***************************************************************************)
(* Lines 172-192: the back-projection of one camera.                       *)
(***************************************************************************)
\* row r of M times the column vector v, the integer matrix entries as floats
RowDot(M, r, v) ==
    FAdd(FAdd(FAdd(FMul(Fin(M[r][1]), v[1]), FMul(Fin(M[r][2]), v[2])),
              FMul(Fin(M[r][3]), v[3])),
         FMul(Fin(M[r][4]), v[4]))

\* (M @ v.T).T[..., :3]
MatVec3(M, v) == <<RowDot(M, 1, v), RowDot(M, 2, v), RowDot(M, 3, v)>>

BackProjectSample(cam, x, y, d, transform_matrix, scale_factor) ==
    LET depth == Fin(d)
        X == FDiv(FMul(FSub(Fin(x), Fin(cam.cx)), depth), Fin(cam.fx))
        Y == FDiv(FMul(FSub(Fin(y), Fin(cam.cy)), depth), Fin(cam.fy))
        Z == depth
        camera_xyz == <<X, Y, Z, Fin(1)>>
        world_coordinates == MatVec3(cam.camera_to_worlds, camera_xyz)
        world_coordinates_homogeneous == world_coordinates \o <<Fin(1)>>
        transformed_world_coordinates ==
            MatVec3(transform_matrix, world_coordinates_homogeneous)
    IN  [c \in 1..3 |-> FMul(transformed_world_coordinates[c], Fin(scale_factor))]

\* the same with the two ray indices exchanged: x from [1], y from [2]
BackProjectCameraSwapped(cam, depth, rays, transform_matrix, scale_factor) ==
    [k \in 1..Len(depth) |->
        BackProjectSample(cam, rays.row[k], rays.col[k], depth[k],
                          transform_matrix, scale_factor)]

\* y = ray_indices[i][1] (rows), x = ray_indices[i][2] (columns)
BackProjectCamera(cam, depth, rays, transform_matrix, scale_factor) ==
    [k \in 1..Len(depth) |->
        BackProjectSample(cam, rays.col[k], rays.row[k], depth[k],
                          transform_matrix, scale_factor)]

(***************************************************************************)
(* Lines 197-207: aggregation and the least-squares fit.                   *)
(***************************************************************************)
RECURSIVE Concatenate(_)
Concatenate(arrays) ==
    IF arrays = <<>> THEN <<>> ELSE Head(arrays) \o Concatenate(Tail(arrays))

AllFinite(points) ==
    \A k \in 1..Len(points) : \A c \in 1..3 : IsFinite(points[k][c])

\* LinearRegression().fit(X, y) validates its input: it raises on an empty
\* array and on NaN or infinity, and fits anything else (the least-squares
\* solve returns the minimum-norm solution of a rank-deficient system)
FitAccepts(points) == Len(points) >= 1 /\ AllFinite(points)

(***************************************************************************)
(* State.                                                                  *)
(*   config, files, scene   the inputs, never changed                      *)
(*   pc, err                the statement to run next and the exception    *)
(*                          that is propagating                            *)
(*   load_path, pipeline_state, output, i, world_xyz, world_xyz_np, plane  *)
(*                          the objects of plane_estimation                *)
(*   main_calls, raised, workers, torch_loads, detections, fits, flushes,  *)
(*   console                what the run has done: calls of main_func,     *)
(*                          the exception main_func raised, worker         *)
(*                          processes created, paths given to torch.load,  *)
(*                          calls of get_surface_detection, of fit and of  *)
(*                          flush_profiler, and the messages on the        *)
(*                          console                                        *)
(***************************************************************************)
VARIABLES config, files, scene, pc, err, load_path, pipeline_state, output, i,
          world_xyz, world_xyz_np, plane, main_calls, raised, workers,
          torch_loads, detections, fits, flushes, console

inputs == <<config, files, scene>>

locals == <<load_path, pipeline_state, output, i, world_xyz, world_xyz_np, plane>>

effects == <<main_calls, raised, workers, torch_loads, detections, fits, flushes,
             console>>

vars == <<inputs, pc, err, locals, effects>>

\* The inputs vary one group at a time: the launch arguments, the checkpoint
\* source with the files on disk, the scene.
Init ==
    /\ \/ config \in LaunchConfigs /\ files = PlainFiles /\ scene = PlainScene
       \/ /\ config \in CheckpointConfigs
          /\ files \in FileSystems
          /\ scene = PlainScene
       \/ /\ config = PlainConfig
          /\ files = PlainFiles
          /\ scene \in Scenes \cup MismatchedScenes
    /\ pc = "launch"
    /\ err = NoError
    /\ load_path = <<>>
    /\ pipeline_state = "none"
    /\ output = <<>>
    /\ i = 0
    /\ world_xyz = <<>>
    /\ world_xyz_np = <<>>
    /\ plane = <<>>
    /\ main_calls = 0
    /\ raised = NoError
    /\ workers = {}
    /\ torch_loads = <<>>
    /\ detections = 0
    /\ fits = 0
    /\ flushes = 0
    /\ console = <<>>

(***************************************************************************)
(* launch, lines 109-121.                                                  *)
(***************************************************************************)
\* line 110
WorldSizeSum(num_machines, num_devices_per_machine) ==
    num_machines + num_devices_per_machine

WorldSize(num_machines, num_devices_per_machine) ==
    num_machines * num_devices_per_machine

\* the except clause of line 117 names KeyboardInterrupt alone
HandlesEverything(e) == TRUE

Handles(e) == e = KeyboardInterrupt

\* an exception e leaves main_func: to the handler of line 117 when it
\* matches, else to the finally clause with e still propagating
RaiseInMain(e) ==
    /\ raised' = e
    /\ err' = e
    /\ pc' = IF Handles(e) THEN "except" ELSE "finally"

\* lines 109-116: the assertion, the world size, the branch taken.  With a
\* world size above 1 neither branch applies and launch falls off its end.
Launch ==
    /\ pc = "launch"
    /\ LET world_size == WorldSize(config.num_machines, config.num_devices) IN
       IF config.is_none
       THEN pc' = "failed" /\ err' = ConfigIsNone /\ main_calls' = main_calls
       ELSE IF world_size = 0
       THEN pc' = "failed" /\ err' = WorldSizeZero /\ main_calls' = main_calls
       ELSE IF world_size = 1
       THEN pc' = "setup" /\ err' = err /\ main_calls' = main_calls + 1
       ELSE pc' = "returned" /\ err' = err /\ main_calls' = main_calls
    /\ UNCHANGED <<inputs, locals, raised, workers, torch_loads, detections, fits,
                   flushes, console>>

\* an interruption signal arrives while main_func runs
Interrupt ==
    /\ pc \in {"setup", "checkpoint", "detect", "loop", "report"}
    /\ RaiseInMain(KeyboardInterrupt)
    /\ UNCHANGED <<inputs, locals, main_calls, workers, torch_loads, detections,
                   fits, flushes, console>>

\* lines 117-119: the trace is put on the console, the exception ends here
ExceptKeyboardInterrupt ==
    /\ pc = "except"
    /\ console' = Append(console, "traceback")
    /\ err' = NoError
    /\ pc' = "finally"
    /\ UNCHANGED <<inputs, locals, main_calls, raised, workers, torch_loads,
                   detections, fits, flushes>>

\* the same clause reached only when nothing propagates
FlushOnSuccessOnly ==
    /\ pc = "finally"
    /\ flushes' = IF err = NoError THEN flushes + 1 ELSE flushes
    /\ pc' = IF err = NoError THEN "returned" ELSE "failed"
    /\ UNCHANGED <<inputs, err, locals, main_calls, raised, workers, torch_loads,
                   detections, fits, console>>

\* lines 120-121: the flush, then launch is left, by the propagating
\* exception when there is one
Finally ==
    /\ pc = "finally"
    /\ flushes' = flushes + 1
    /\ pc' = IF err = NoError THEN "returned" ELSE "failed"
    /\ UNCHANGED <<inputs, err, locals, main_calls, raised, workers, torch_loads,
                   detections, fits, console>>

(***************************************************************************)
(* plane_estimation, lines 124-245.                                        *)
(***************************************************************************)
\* lines 124-127: the pipeline is built, its state freshly initialized
Setup ==
    /\ pc = "setup"
    /\ pipeline_state' = "fresh"
    /\ pc' = "checkpoint"
    /\ UNCHANGED <<inputs, err, load_path, output, i, world_xyz, world_xyz_np,
                   plane, effects>>

\* lines 133-137: what stops the choice of the step, if anything
StepError(cfg, fs) ==
    IF cfg.load_step # {} THEN NoError
    ELSE IF ~fs.dir_exists THEN ListdirMissing
    ELSE IF \E x \in fs.files : ~IntParses(StepField(x)) THEN NotAnInteger
    ELSE IF fs.files = {} THEN EmptyListIndex
    ELSE NoError

\* lines 133-137: config.load_step, or the last of the sorted steps
LoadStep(cfg, fs) ==
    IF cfg.load_step # {} THEN CHOOSE n \in cfg.load_step : TRUE
    ELSE LatestStep(fs.files)

\* assert path.exists(); torch.load; loaded_state["step"]; load_pipeline;
\* load_state_dict; the message (lines 139-148 and 150-159)
LoadState(path, exists) ==
    IF ~exists
    THEN /\ RaiseInMain(CheckpointMissing)
         /\ UNCHANGED <<torch_loads, pipeline_state, console>>
    ELSE /\ torch_loads' = Append(torch_loads, path)
         /\ IF files.content = "garbage"
            THEN RaiseInMain(Undeserializable)
                 /\ UNCHANGED <<pipeline_state, console>>
            ELSE IF files.content = "nofields"
            THEN RaiseInMain(MissingField)
                 /\ UNCHANGED <<pipeline_state, console>>
            ELSE /\ pipeline_state' = "loaded"
                 /\ console' = Append(console, "Done loading Nerfstudio checkpoint")
                 /\ pc' = "detect"
                 /\ UNCHANGED <<err, raised>>

\* lines 132-148
LoadFromDir ==
    /\ pc = "checkpoint"
    /\ config.load_dir
    /\ IF StepError(config, files) # NoError
       THEN /\ RaiseInMain(StepError(config, files))
            /\ UNCHANGED <<load_path, torch_loads, pipeline_state, console>>
       ELSE LET path == CheckpointName(LoadStep(config, files)) IN
            /\ load_path' = <<path>>
            /\ LoadState(path, files.dir_exists /\ path \in files.files)
    /\ UNCHANGED <<inputs, output, i, world_xyz, world_xyz_np, plane, main_calls,
                   workers, detections, fits, flushes>>

\* lines 149-159
LoadFromCheckpoint ==
    /\ pc = "checkpoint"
    /\ ~config.load_dir
    /\ config.load_checkpoint
    /\ LoadState(CheckpointFile, files.ckpt_exists)
    /\ UNCHANGED <<inputs, load_path, output, i, world_xyz, world_xyz_np, plane,
                   main_calls, workers, detections, fits, flushes>>

\* lines 160-161
NoCheckpoint ==
    /\ pc = "checkpoint"
    /\ ~config.load_dir
    /\ ~config.load_checkpoint
    /\ console' = Append(console, "No Nerfstudio checkpoint to load")
    /\ pc' = "detect"
    /\ UNCHANGED <<inputs, err, locals, main_calls, raised, workers, torch_loads,
                   detections, fits, flushes>>

\* line 165, with <= in the place of ==
LengthsAgreeAtMost(num_image, n_output) == num_image <= n_output

\* line 165
LengthsAgree(num_image, n_output) == num_image = n_output

\* lines 163-169
SurfaceDetection ==
    /\ pc = "detect"
    /\ detections' = detections + 1
    /\ output' = scene.surface_detection
    /\ IF LengthsAgree(Len(scene.expanded_cameras), Len(scene.surface_detection))
       THEN pc' = "loop" /\ UNCHANGED <<err, raised>>
       ELSE RaiseInMain(FalseLength)
    /\ i' = 0
    /\ world_xyz' = <<>>
    /\ UNCHANGED <<inputs, load_path, pipeline_state, world_xyz_np, plane,
                   main_calls, workers, torch_loads, fits, flushes, console>>

\* lines 170-193: one iteration of the loop over the cameras (i counts the
\* iterations done, camera i + 1 is the one of this iteration)
BackProject ==
    /\ pc = "loop"
    /\ i < Len(scene.expanded_cameras)
    /\ world_xyz' = Append(world_xyz,
           BackProjectCamera(scene.expanded_cameras[i + 1], output[i + 1],
                             scene.ray_indices[i + 1], scene.transform_matrix,
                             scene.scale_factor))
    /\ i' = i + 1
    /\ UNCHANGED <<inputs, pc, err, load_path, pipeline_state, output,
                   world_xyz_np, plane, effects>>

\* lines 197-207: np.concatenate, then the fit; c is set to -1 and a, b, d
\* are the least-squares solution over the points (not computed here)
FitPlane ==
    /\ pc = "loop"
    /\ i = Len(scene.expanded_cameras)
    /\ IF world_xyz = <<>>
       THEN /\ RaiseInMain(NothingToConcatenate)
            /\ UNCHANGED <<world_xyz_np, fits, plane>>
       ELSE /\ world_xyz_np' = Concatenate(world_xyz)
            /\ fits' = fits + 1
            /\ IF FitAccepts(Concatenate(world_xyz))
               THEN /\ plane' = <<[c |-> -1, points |-> Len(Concatenate(world_xyz))]>>
                    /\ pc' = "report"
                    /\ UNCHANGED <<err, raised>>
               ELSE RaiseInMain(FitRejectsInput) /\ UNCHANGED plane
    /\ UNCHANGED <<inputs, load_path, pipeline_state, output, i, world_xyz,
                   main_calls, workers, torch_loads, detections, flushes, console>>

\* lines 209-245: the vertices and the plane equation are put on the console
\* and main_func returns
Report ==
    /\ pc = "report"
    /\ console' = console \o <<"Vertices of bbox", "The equation of the plane">>
    /\ pc' = "finally"
    /\ UNCHANGED <<inputs, err, locals, main_calls, raised, workers, torch_loads,
                   detections, fits, flushes>>

Next ==
    \/ Launch
    \/ Setup
    \/ LoadFromDir
    \/ LoadFromCheckpoint
    \/ NoCheckpoint
    \/ SurfaceDetection
    \/ BackProject
    \/ FitPlane
    \/ Report
    \/ Interrupt
    \/ ExceptKeyboardInterrupt
    \/ Finally

Spec == Init /\ [][Next]_vars

(***************************************************************************)
(* Vocabulary of the properties.                                           *)
(***************************************************************************)
SingleWorker ==
    ~config.is_none /\ config.num_machines * config.num_devices = 1

LaunchLeft == pc \in {"returned", "failed"}

InMain == pc \in {"setup", "checkpoint", "detect", "loop", "report"}

OnConsole(msg) == \E k \in 1..Len(console) : console[k] = msg

PlaneReported == OnConsole("The equation of the plane")

NumCameras == Len(scene.expanded_cameras)

(***************************************************************************)
(* C1.  A launch with a configuration and a world size of 0 fails with the *)
(* world-size error (InvalidConfiguration); main_func is never called, the *)
(* profiler is never flushed and no worker is created.                     *)
(***************************************************************************)
C1_ZeroWorldSizeFails ==
    (~config.is_none /\ config.num_machines * config.num_devices = 0)
        => /\ main_calls = 0
           /\ flushes = 0
           /\ workers = {}
           /\ pc \in {"launch", "failed"}
           /\ (pc = "failed" => err = WorldSizeZero)

C1_Witness ==
    /\ ~config.is_none
    /\ config.num_machines = 0
    /\ config.num_devices = 1
    /\ pc = "failed"
    /\ err = WorldSizeZero

(***************************************************************************)
(* C2.  With a world size of 1, main_func is called exactly once, in the   *)
(* calling context (no worker is created, no second call is made), and on  *)
(* every way out of it (return, exception, interruption) the profiler is   *)
(* flushed exactly once: not while main_func runs or its handler runs, and *)
(* before launch is left.                                                  *)
(***************************************************************************)
C2_SingleWorkerFlushesOnce ==
    SingleWorker
        => /\ workers = {}
           /\ main_calls = (IF pc = "launch" THEN 0 ELSE 1)
           /\ (pc \in {"launch", "except", "finally"} \/ InMain => flushes = 0)
           /\ (LaunchLeft => flushes = 1)

C2_Witness ==
    /\ SingleWorker
    /\ pc = "failed"
    /\ raised = FalseLength
    /\ main_calls = 1
    /\ flushes = 1

(***************************************************************************)
(* C3, as claimed.  With a world size of 1, every exception main_func      *)
(* raises, of whatever kind, is caught in launch and its trace is put on   *)
(* the console, the flush done before launch returns.                      *)
(***************************************************************************)
C3_EveryErrorCaught ==
    (SingleWorker /\ LaunchLeft /\ raised # NoError)
        => /\ pc = "returned"
           /\ OnConsole("traceback")
           /\ flushes = 1

(***************************************************************************)
(* C3, amended.  With a world size of 1, a KeyboardInterrupt raised in     *)
(* main_func is caught in launch and its trace is put on the console;      *)
(* an exception of any other kind is not caught: it leaves launch, still   *)
(* propagating, and launch puts no trace on the console.  In both cases    *)
(* the flush is done before launch is left.                                *)
(***************************************************************************)
C3_OnlyInterruptCaught ==
    (SingleWorker /\ LaunchLeft)
        => /\ flushes = 1
           /\ (raised = KeyboardInterrupt
                 => pc = "returned" /\ err = NoError /\ OnConsole("traceback"))
           /\ (raised \notin {NoError, KeyboardInterrupt}
                 => pc = "failed" /\ err = raised /\ ~OnConsole("traceback"))
           /\ (raised = NoError => pc = "returned" /\ ~OnConsole("traceback"))

C3_Witness ==
    /\ SingleWorker
    /\ pc = "failed"
    /\ raised = CheckpointMissing
    /\ err = CheckpointMissing
    /\ flushes = 1

(***************************************************************************)
(* C4.  With a world size above 1, launch spawns num_devices_per_machine   *)
(* workers with distinct global ranks below the world size, and returns    *)
(* only once main_func has run in every one of them.                       *)
(***************************************************************************)
C4_AllWorkersRan ==
    (~config.is_none /\ config.num_machines * config.num_devices > 1
        /\ pc = "returned")
        => /\ Cardinality(workers) = config.num_devices
           /\ workers \subseteq 0..(config.num_machines * config.num_devices - 1)
           /\ main_calls = config.num_devices

\* step-<9 digits>.ckpt, by the shape of the name
Conforming(x) ==
    /\ Len(x) = 19
    /\ SubSeq(x, 1, 5) = <<"s", "t", "e", "p", "-">>
    /\ \A j \in 6..14 : IsDigit(x[j])
    /\ SubSeq(x, 15, 19) = <<".", "c", "k", "p", "t">>

EmbeddedStep(x) == DigitsValue(SubSeq(x, 6, 14))

ResolutionErrors ==
    {ListdirMissing, NotAnInteger, EmptyListIndex, CheckpointMissing}

PastCheckpoint == pc \in {"detect", "loop", "report"} \/ detections > 0

(***************************************************************************)
(* C5.  With a checkpoint directory and no explicit step, over every       *)
(* non-empty directory whose files are all named step-<9 digits>.ckpt, the *)
(* job resolves the step without failing and the file it loads is the one  *)
(* of the directory whose embedded number is the largest; with an explicit *)
(* step, the file loaded is the file of that step.                         *)
(***************************************************************************)
C5_LatestCheckpointLoaded ==
    /\ (/\ config.load_dir
        /\ config.load_step = {}
        /\ files.dir_exists
        /\ files.files # {}
        /\ \A x \in files.files : Conforming(x))
          => /\ raised \notin ResolutionErrors
             /\ (PastCheckpoint => torch_loads # <<>>)
             /\ (torch_loads # <<>>
                   => /\ Len(torch_loads) = 1
                      /\ torch_loads[1] \in files.files
                      /\ \A y \in files.files :
                            EmbeddedStep(y) <= EmbeddedStep(torch_loads[1]))
    /\ (config.load_dir /\ config.load_step # {})
          => /\ (PastCheckpoint => torch_loads # <<>>)
             /\ (torch_loads # <<>>
                   => /\ Len(torch_loads) = 1
                      /\ torch_loads[1] \in files.files
                      /\ Conforming(torch_loads[1])
                      /\ EmbeddedStep(torch_loads[1]) \in config.load_step)

C5_Witness ==
    /\ config.load_dir
    /\ config.load_step = {}
    /\ \A x \in files.files : Conforming(x)
    /\ \E x, y \in files.files : EmbeddedStep(x) = 5 /\ EmbeddedStep(y) = 10
    /\ \A x \in files.files : EmbeddedStep(x) <= 10
    /\ pc = "detect"
    /\ Len(torch_loads) = 1
    /\ EmbeddedStep(torch_loads[1]) = 10

\* a checkpoint source is configured and names no existing file
Unresolved ==
    IF config.load_dir
    THEN IF config.load_step = {}
         THEN files.files = {}
         ELSE \A x \in files.files :
                 ~(Conforming(x) /\ EmbeddedStep(x) \in config.load_step)
    ELSE config.load_checkpoint /\ ~files.ckpt_exists

\* not found: the assertion of lines 139 and 150, or the directory missing
CheckpointNotFound == {CheckpointMissing, ListdirMissing}

(***************************************************************************)
(* C6.  A configured checkpoint source that names no existing file (a      *)
(* directory without the file of the explicit step, a directory that is    *)
(* empty when no step is given, an explicit checkpoint file that does not  *)
(* exist) makes the job fail with the checkpoint-not-found error before    *)
(* anything is loaded, before the depth outputs are requested and without  *)
(* a plane reported; without a checkpoint source the job reaches the       *)
(* surface-detection stage with freshly initialized state.                 *)
(***************************************************************************)
C6_CheckpointNotFound ==
    /\ (SingleWorker /\ Unresolved)
          => /\ torch_loads = <<>>
             /\ pipeline_state # "loaded"
             /\ detections = 0
             /\ ~PlaneReported
             /\ ~PastCheckpoint
             /\ (raised \notin {NoError, KeyboardInterrupt}
                   => raised \in CheckpointNotFound)
    /\ (SingleWorker /\ ~config.load_dir /\ ~config.load_checkpoint)
          => /\ torch_loads = <<>>
             /\ raised \notin ResolutionErrors
             /\ (PastCheckpoint => pipeline_state = "fresh")

(***************************************************************************)
(* C7.  When the surface-detection stage returns a number of depth outputs *)
(* other than the number of cameras, the job fails with the length         *)
(* assertion (CameraCountMismatch) before any camera is back-projected:    *)
(* nothing is appended to the point cloud, the fit is not called and no    *)
(* plane is reported.                                                      *)
(***************************************************************************)
C7_CameraCountMismatch ==
    (Len(scene.surface_detection) # NumCameras)
        => /\ world_xyz = <<>>
           /\ i = 0
           /\ fits = 0
           /\ plane = <<>>
           /\ ~PlaneReported
           /\ pc \notin {"loop", "report"}
           /\ (detections > 0 => raised = FalseLength)
           /\ (pc = "failed" => err = FalseLength)

C7_Witness ==
    /\ Len(scene.surface_detection) > NumCameras
    /\ NumCameras >= 1
    /\ detections = 1
    /\ pc = "failed"
    /\ err = FalseLength

Degenerate(cam) == cam.fx = 0 \/ cam.fy = 0

(***************************************************************************)
(* C8.  A camera with fx = 0 or fy = 0 makes its back-projection fail      *)
(* (DegenerateIntrinsics): its iteration of the loop never completes, the  *)
(* job aborts, and no plane is fitted or reported.                         *)
(***************************************************************************)
C8_DegenerateIntrinsicsAbort ==
    \A j \in 1..NumCameras :
        Degenerate(scene.expanded_cameras[j])
            => /\ i < j
               /\ fits = 0
               /\ plane = <<>>
               /\ ~PlaneReported

Cross(u, v) ==
    <<u[2] * v[3] - u[3] * v[2], u[3] * v[1] - u[1] * v[3],
      u[1] * v[2] - u[2] * v[1]>>

Diff(p, q) == <<p[1].v - q[1].v, p[2].v - q[2].v, p[3].v - q[3].v>>

\* of finite points: all on one line through the first
Collinear(points) ==
    \A j, k \in 1..Len(points) :
        Cross(Diff(points[j], points[1]), Diff(points[k], points[1])) = <<0, 0, 0>>

(***************************************************************************)
(* C9.  A fit over fewer than 3 points, or over 3 or more collinear        *)
(* points, fails (InsufficientData, DegeneratePlane): no plane equation    *)
(* comes out of it and none is reported.                                   *)
(***************************************************************************)
C9_DegenerateFitFails ==
    (fits > 0 /\ AllFinite(world_xyz_np)
        /\ (Len(world_xyz_np) < 3 \/ Collinear(world_xyz_np)))
        => /\ plane = <<>>
           /\ ~PlaneReported
           /\ raised # NoError

(***************************************************************************)
(* C10.  Scenes of identity cameras (fx = fy = 1, cx = cy = 0, identity    *)
(* camera_to_worlds) under the identity normalization matrix, with as many *)
(* depth outputs as cameras.                                               *)
(***************************************************************************)
IdentityScene ==
    /\ \A j \in 1..NumCameras : scene.expanded_cameras[j] = IdentityCamera
    /\ scene.transform_matrix = Identity34
    /\ Len(scene.surface_detection) = NumCameras

SampleRow(j, k) == scene.ray_indices[j].row[k]

SampleCol(j, k) == scene.ray_indices[j].col[k]

SampleDepth(j, k) == scene.surface_detection[j][k]

\* the number of depth samples of the first j cameras
RECURSIVE SamplesUpTo(_)
SamplesUpTo(j) ==
    IF j = 0 THEN 0 ELSE SamplesUpTo(j - 1) + Len(scene.surface_detection[j])

\* one list per camera done, in camera order, one point per depth sample
OnePointPerSample ==
    /\ Len(world_xyz) = i
    /\ i <= NumCameras
    /\ \A j \in 1..Len(world_xyz) :
          Len(world_xyz[j]) = Len(scene.surface_detection[j])
    /\ fits > 0
          => /\ i = NumCameras
             /\ Len(world_xyz_np) = SamplesUpTo(NumCameras)
             /\ \A j \in 1..NumCameras : \A k \in 1..Len(world_xyz[j]) :
                    world_xyz_np[SamplesUpTo(j - 1) + k] = world_xyz[j][k]

(***************************************************************************)
(* C10, as claimed.  In such a scene the point cloud holds one point per   *)
(* depth sample, camera by camera in index order, and the point of a       *)
(* sample is scale_factor * [col, row, depth].                             *)
(***************************************************************************)
C10_PointsAreColRowDepth ==
    IdentityScene
        => /\ OnePointPerSample
           /\ \A j \in 1..Len(world_xyz) : \A k \in 1..Len(world_xyz[j]) :
                 world_xyz[j][k] =
                     <<Fin(scene.scale_factor * SampleCol(j, k)),
                       Fin(scene.scale_factor * SampleRow(j, k)),
                       Fin(scene.scale_factor * SampleDepth(j, k))>>

(***************************************************************************)
(* C10, amended.  In such a scene the point cloud holds one point per      *)
(* depth sample, camera by camera in index order, and the point of a       *)
(* sample is scale_factor * [col * depth, row * depth, depth].             *)
(***************************************************************************)
C10_PointsAreScaledByDepth ==
    IdentityScene
        => /\ OnePointPerSample
           /\ \A j \in 1..Len(world_xyz) : \A k \in 1..Len(world_xyz[j]) :
                 world_xyz[j][k] =
                     <<Fin(scene.scale_factor * SampleCol(j, k) * SampleDepth(j, k)),
                       Fin(scene.scale_factor * SampleRow(j, k) * SampleDepth(j, k)),
                       Fin(scene.scale_factor * SampleDepth(j, k))>>

C10_Witness ==
    /\ IdentityScene
    /\ scene.scale_factor = 2
    /\ NumCameras = 2
    /\ \A j \in 1..2 : Len(scene.surface_detection[j]) = 2
    /\ SampleCol(1, 2) # SampleRow(1, 2)
    /\ pc = "report"
    /\ Len(world_xyz_np) = 4
====
